---------------------------- MODULE Spec2Model ----------------------------
(***************************************************************************)
(* Model of src/server.js of iptv-playlist-analyser: the playlist parser   *)
(* (parsePlaylist), the content validator (isValidPlaylistContent), the    *)
(* channel prober (checkChannelHealth), the batch prober                   *)
(* (batchCheckChannels) and the /api/analyze handler.                      *)
(*                                                                         *)
(* Text is a sequence of tokens.  A token is either one character (" ",    *)
(* "\n", ",", "=", the double quote, "-", "<", "1") or a run of characters *)
(* that the inputs of the model never split ("#EXTINF:", "http://",        *)
(* "group-title", "CNN", ...; "W100" and "W200" are runs of 100 and 200    *)
(* word characters, "U2041" a run of 2041 characters of a URL path).       *)
(* No concatenation of tokens of the alphabet                              *)
(* spells a keyword other than the keyword's own token, so startsWith,     *)
(* includes, split, trim, toLowerCase, lastIndexOf and the attribute       *)
(* regular expression are computed exactly on every text of the model.     *)
(***************************************************************************)
EXTENDS Integers, Sequences, FiniteSets, TLC

VARIABLES
    pc,            \* position of the run: see the actions
    req,           \* req.body of the /api/analyze request
    url,           \* the handler's url (empty before validation)
    content,       \* the text handed to the validator and the parser
    validContent,  \* result of isValidPlaylistContent(content)
    channels,      \* result of parsePlaylist(content)
    toCheck,       \* batchCheckChannels: its channels argument
    maxConcurrent, \* batchCheckChannels: its maxConcurrent argument
    i,             \* batchCheckChannels: loop index (0-based, as in the code)
    results,       \* batchCheckChannels: results
    batchResults,  \* the pending Promise.all: position in toCheck -> result
    inflight,      \* positions of toCheck whose axios.head has not settled
    windows,       \* history: the slices batch.map was run on, in order
    issued,        \* history: positions whose probe was issued, in order
    outcome,       \* history: position -> what the network answered
    overtaken,     \* history: a probe settled before one of a lower position
    netlog,        \* history: outbound operations of the handler, in order
    response       \* what res.json was called with, NoResponse before

vars == <<pc, req, url, content, validContent, channels, toCheck,
          maxConcurrent, i, results, batchResults, inflight, windows,
          issued, outcome, overtaken, netlog, response>>

batchVars == <<toCheck, maxConcurrent, i, results, batchResults, inflight,
               windows, issued, outcome, overtaken>>

-----------------------------------------------------------------------------
(* Bounds of the model.                                                    *)

\* longest text of SpecParse, in lines
MaxLines == 3
\* longest channel list handed to batchCheckChannels in SpecBatch
MaxBatchLen == 5
\* widest concurrency tried in SpecBatch
MaxConc == 3
\* most entries of a playlist fetched in Spec
MaxEntries == 6
\* largest small maxChannelsToCheck requested in Spec
MaxCap == 3

-----------------------------------------------------------------------------
(* Program constants.                                                      *)

MAX_URL_LENGTH == 2048
MAX_CHANNELS_TO_CHECK == 100
NAME_LIMIT == 200
GROUP_LIMIT == 100
DEFAULT_MAX_CHANNELS == 50
ANALYZE_CONCURRENCY == 5
MAX_GROUPS_IN_RESPONSE == 50
MAX_CHANNELS_IN_RESPONSE == 200

-----------------------------------------------------------------------------
(* Strings as token sequences.                                             *)

Min(a, b) == IF a <= b THEN a ELSE b
Max(a, b) == IF a >= b THEN a ELSE b

\* String.prototype.trim: the characters it strips
Whitespace == {" ", "\n"}

\* \w of the attribute regular expression: tokens made of word characters
\* (and inner hyphens), starting with a word character
WordToks == {"1", "x", "abc", "CNN", "BBC", "Fox", "News", "Kids",
             "news", "kids", "cnn", "bbc", "fox",
             "group-title", "GROUP-TITLE", "tvg-id", "W100", "W200"}

\* [-\w] of the attribute regular expression
KeyToks == WordToks \cup {"-"}

\* toLowerCase on one token
LowerTok(t) ==
    CASE t = "#EXTM3U"     -> "#extm3u"
      [] t = "#EXTINF:"    -> "#extinf:"
      [] t = "HTTP://"     -> "http://"
      [] t = "GROUP-TITLE" -> "group-title"
      [] t = "CNN"         -> "cnn"
      [] t = "BBC"         -> "bbc"
      [] t = "Fox"         -> "fox"
      [] t = "News"        -> "news"
      [] t = "Kids"        -> "kids"
      [] OTHER             -> t

\* String.prototype.toLowerCase
ToLowerCase(s) == [k \in 1..Len(s) |-> LowerTok(s[k])]

\* number of characters of one token
CharLen(t) ==
    CASE t \in {" ", "\n", ",", "=", "\"", "-", "<", "1", "x"} -> 1
      [] t \in {"abc", "CNN", "BBC", "Fox", "cnn", "bbc", "fox"} -> 3
      [] t \in {"News", "Kids", "news", "kids"} -> 4
      [] t \in {"tvg-id", "a.test", "b.test"} -> 6
      [] t \in {"#EXTM3U", "#extm3u", "http://", "HTTP://", "Unknown",
                "Channel"} -> 7
      [] t \in {"#EXTINF:", "#extinf:", "https://"} -> 8
      [] t \in {"group-title", "GROUP-TITLE"} -> 11
      [] t = "Uncategorized" -> 13
      [] t = "W100" -> 100
      [] t = "W200" -> 200
      [] t = "U2041" -> 2041
      [] t \in {"ftp://", "p.test"} -> 6
      [] OTHER -> 1

RECURSIVE StrLen(_)
\* String.prototype.length
StrLen(s) == IF s = <<>> THEN 0 ELSE CharLen(Head(s)) + StrLen(Tail(s))

RECURSIVE Substring0(_, _)
\* s.substring(0, n): the prefix of at most n characters (every cut of the
\* model falls between two tokens)
Substring0(s, n) ==
    IF s = <<>> \/ CharLen(Head(s)) > n THEN <<>>
    ELSE <<Head(s)>> \o Substring0(Tail(s), n - CharLen(Head(s)))

RECURSIVE TrimStart(_)
TrimStart(s) ==
    IF s # <<>> /\ Head(s) \in Whitespace THEN TrimStart(Tail(s)) ELSE s

RECURSIVE TrimEnd(_)
TrimEnd(s) ==
    IF s # <<>> /\ s[Len(s)] \in Whitespace
    THEN TrimEnd(SubSeq(s, 1, Len(s) - 1)) ELSE s

\* String.prototype.trim
Trim(s) == TrimEnd(TrimStart(s))

\* s.startsWith(t) for a keyword t
StartsWith(s, t) == s # <<>> /\ Head(s) = t

\* s.includes(t) for a keyword t
Includes(s, t) == \E k \in 1..Len(s) : s[k] = t

\* s.lastIndexOf(t), 1-based, 0 when absent (the code's -1)
LastIndexOf(s, t) ==
    IF Includes(s, t)
    THEN CHOOSE k \in 1..Len(s) :
            s[k] = t /\ \A j \in (k + 1)..Len(s) : s[j] # t
    ELSE 0

RECURSIVE Split(_)
\* s.split('\n')
Split(s) ==
    IF ~Includes(s, "\n") THEN <<s>>
    ELSE LET k == CHOOSE k \in 1..Len(s) :
                     s[k] = "\n" /\ \A j \in 1..(k - 1) : s[j] # "\n"
         IN <<SubSeq(s, 1, k - 1)>> \o Split(SubSeq(s, k + 1, Len(s)))

RECURSIVE FilterNonEmpty(_)
\* lines.filter(l => l)
FilterNonEmpty(ls) ==
    IF ls = <<>> THEN <<>>
    ELSE (IF Head(ls) # <<>> THEN <<Head(ls)>> ELSE <<>>)
         \o FilterNonEmpty(Tail(ls))

RECURSIVE JoinLines(_)
\* lines.join('\n')
JoinLines(ls) ==
    IF ls = <<>> THEN <<>>
    ELSE IF Len(ls) = 1 THEN ls[1]
    ELSE ls[1] \o <<"\n">> \o JoinLines(Tail(ls))

-----------------------------------------------------------------------------
(* parsePlaylist.                                                          *)

\* JavaScript null, for a url
Null == <<"null">>
\* JavaScript null, for a responseTime (elapsed times are >= 0)
NullTime == -1

\* end of the run of [-\w] tokens that starts at p: first position after it
RECURSIVE KeyRunEnd(_, _)
KeyRunEnd(s, p) ==
    IF p <= Len(s) /\ s[p] \in KeyToks THEN KeyRunEnd(s, p + 1) ELSE p

\* first position >= p holding a double quote, 0 when there is none
RECURSIVE NextQuote(_, _)
NextQuote(s, p) ==
    IF p > Len(s) THEN 0 ELSE IF s[p] = "\"" THEN p ELSE NextQuote(s, p + 1)

\* /(\w+[-\w]*)="([^"]*)"/ matched with its first character at p
MatchesAt(s, p) ==
    /\ p <= Len(s)
    /\ s[p] \in WordToks
    /\ LET q == KeyRunEnd(s, p)
       IN /\ q + 1 <= Len(s)
          /\ s[q] = "="
          /\ s[q + 1] = "\""
          /\ NextQuote(s, q + 2) # 0

\* attrRegex.exec(extinf) with lastIndex = from - 1: the leftmost match at or
\* after from, as [found, key, value, next], next being the new lastIndex + 1
AttrRegexExec(s, from) ==
    IF \E p \in from..Len(s) : MatchesAt(s, p)
    THEN LET p == CHOOSE p \in from..Len(s) :
                     MatchesAt(s, p) /\ \A j \in from..(p - 1) : ~MatchesAt(s, j)
             q == KeyRunEnd(s, p)
             r == NextQuote(s, q + 2)
         IN [found |-> TRUE, key |-> SubSeq(s, p, q - 1),
             value |-> SubSeq(s, q + 2, r - 1), next |-> r + 1]
    ELSE [found |-> FALSE, key |-> <<>>, value |-> <<>>, next |-> from]

\* the while loop over attrRegex.exec: attrs[match[1].toLowerCase()] = match[2]
\* for every match, a later match of a key replacing an earlier one
RECURSIVE AttrsFrom(_, _, _)
AttrsFrom(s, from, attrs) ==
    LET m == AttrRegexExec(s, from)
    IN IF ~m.found THEN attrs
       ELSE AttrsFrom(s, m.next,
                [k \in DOMAIN attrs \cup {ToLowerCase(m.key)} |->
                    IF k = ToLowerCase(m.key) THEN m.value ELSE attrs[k]])

\* the attrs object of one #EXTINF line
ParseAttrs(extinf) == AttrsFrom(extinf, 1, [k \in {} |-> <<>>])

\* (attrs['group-title'] || 'Uncategorized')
GroupTitleOr(attrs) ==
    IF <<"group-title">> \in DOMAIN attrs /\ attrs[<<"group-title">>] # <<>>
    THEN attrs[<<"group-title">>]
    ELSE <<"Uncategorized">>

\* the channel built from a line that starts with #EXTINF:
ExtinfChannel(line) ==
    LET extinf == Tail(line)
        commaIndex == LastIndexOf(extinf, ",")
        name == IF commaIndex > 0
                THEN Trim(SubSeq(extinf, commaIndex + 1, Len(extinf)))
                ELSE <<"Unknown">>
    IN [name |-> Substring0(name, NAME_LIMIT),
        group |-> Substring0(GroupTitleOr(ParseAttrs(extinf)), GROUP_LIMIT),
        url |-> Null, status |-> "unknown", responseTime |-> NullTime]

\* BareChannel numbering from the 0-based length
BareChannelZeroBased(line, n) ==
    [name |-> <<"Channel", " ", ToString(n)>>,
     group |-> <<"Uncategorized">>,
     url |-> Substring0(line, MAX_URL_LENGTH),
     status |-> "unknown", responseTime |-> NullTime]

\* the channel pushed for a URL line met with currentChannel null
BareChannel(line, n) ==
    [name |-> <<"Channel", " ", ToString(n + 1)>>,
     group |-> <<"Uncategorized">>,
     url |-> Substring0(line, MAX_URL_LENGTH),
     status |-> "unknown", responseTime |-> NullTime]

IsExtinfLine(line) == StartsWith(line, "#EXTINF:")
IsUrlLine(line) == StartsWith(line, "http://") \/ StartsWith(line, "https://")

\* ParseLine pushing the pending channel that a new #EXTINF line replaces
ParseLineEmitReplaced(st, line) ==
    IF IsExtinfLine(line)
    THEN [channels |-> st.channels \o st.currentChannel,
          currentChannel |-> <<ExtinfChannel(line)>>]
    ELSE IF IsUrlLine(line)
    THEN IF st.currentChannel # <<>>
         THEN [channels |-> Append(st.channels,
                   [st.currentChannel[1] EXCEPT
                       !.url = Substring0(line, MAX_URL_LENGTH)]),
               currentChannel |-> <<>>]
         ELSE [channels |-> Append(st.channels,
                   BareChannel(line, Len(st.channels))),
               currentChannel |-> <<>>]
    ELSE st

\* one iteration of the for loop: st = [channels, currentChannel], the
\* pending channel being <<>> for null and <<c>> otherwise
ParseLine(st, line) ==
    IF IsExtinfLine(line)
    THEN [channels |-> st.channels, currentChannel |-> <<ExtinfChannel(line)>>]
    ELSE IF IsUrlLine(line)
    THEN IF st.currentChannel # <<>>
         THEN [channels |-> Append(st.channels,
                   [st.currentChannel[1] EXCEPT
                       !.url = Substring0(line, MAX_URL_LENGTH)]),
               currentChannel |-> <<>>]
         ELSE [channels |-> Append(st.channels,
                   BareChannel(line, Len(st.channels))),
               currentChannel |-> <<>>]
    ELSE st

RECURSIVE ParseLoop(_, _)
ParseLoop(st, lines) ==
    IF lines = <<>> THEN st
    ELSE ParseLoop(ParseLine(st, Head(lines)), Tail(lines))

\* content.split('\n').map(l => l.trim()).filter(l => l)
PlaylistLines(text) ==
    LET raw == Split(text)
    IN FilterNonEmpty([k \in 1..Len(raw) |-> Trim(raw[k])])

\* parsePlaylist pushing the channel still pending at the end of input
parsePlaylistFlush(text) ==
    LET st == ParseLoop([channels |-> <<>>, currentChannel |-> <<>>],
                        PlaylistLines(text))
    IN st.channels \o st.currentChannel

parsePlaylist(text) ==
    ParseLoop([channels |-> <<>>, currentChannel |-> <<>>],
              PlaylistLines(text)).channels

-----------------------------------------------------------------------------
(* isValidPlaylistContent.                                                 *)

\* /^https?:\/\//i.test(line)
HttpRegexTest(line) ==
    LET l == ToLowerCase(line)
    IN StartsWith(l, "http://") \/ StartsWith(l, "https://")

\* isValidPlaylistContent comparing case-sensitively
isValidPlaylistContentCaseSensitive(text) ==
    IF text = <<>> THEN FALSE
    ELSE LET contentLower == Trim(text)
             lines == Split(text)
         IN \/ StartsWith(contentLower, "#extm3u")
            \/ Includes(contentLower, "#extinf:")
            \/ \E k \in 1..Len(lines) : HttpRegexTest(Trim(lines[k]))

isValidPlaylistContent(text) ==
    IF text = <<>> THEN FALSE
    ELSE LET contentLower == Trim(ToLowerCase(text))
             lines == Split(text)
         IN \/ StartsWith(contentLower, "#extm3u")
            \/ Includes(contentLower, "#extinf:")
            \/ \E k \in 1..Len(lines) : HttpRegexTest(Trim(lines[k]))

-----------------------------------------------------------------------------
(* State outside a run.                                                    *)

NoRequest == [isObject |-> FALSE,
              url |-> [t |-> "undefined", s |-> <<>>],
              checkChannels |-> "undefined",
              maxChannelsToCheck |->
                  [kind |-> "undefined", n |-> 0, tenths |-> 0],
              unexpected |-> FALSE]
NoResponse == [status |-> 0]
EmptyMap == [k \in {} |-> 0]

HandlerIdle ==
    /\ req = NoRequest
    /\ url = <<>>
    /\ netlog = <<>>
    /\ response = NoResponse

BatchIdle ==
    /\ toCheck = <<>>
    /\ maxConcurrent = 0
    /\ i = 0
    /\ results = <<>>
    /\ batchResults = EmptyMap
    /\ inflight = {}
    /\ windows = <<>>
    /\ issued = <<>>
    /\ outcome = EmptyMap
    /\ overtaken = FALSE

-----------------------------------------------------------------------------
(* checkChannelHealth and batchCheckChannels.                              *)

\* What axios.head can settle with: a response (validateStatus accepts every
\* status) or a rejection.  status is response.status; for a rejection
\* hasResponse says whether error.response is set and status is then
\* error.response.status.  elapsed is Date.now() - startTime; contentType is
\* the header, "null" when it is missing; code is error.code || error.message.
ProbeOutcomes ==
    { [kind |-> "response", hasResponse |-> TRUE, status |-> 200,
       contentType |-> "video/mp2t", code |-> "", elapsed |-> 12],
      [kind |-> "response", hasResponse |-> TRUE, status |-> 404,
       contentType |-> "null", code |-> "", elapsed |-> 30],
      [kind |-> "error", hasResponse |-> FALSE, status |-> 0,
       contentType |-> "null", code |-> "ECONNABORTED", elapsed |-> 8000] }

\* HealthRejects without the catch block: a rejection of axios.head escapes
HealthRejectsOnError(o) == o.kind = "error"

\* HealthRejects with a catch block that lets a timeout of axios.head through
HealthRejectsOnTimeout(o) == o.code = "ECONNABORTED"

\* whether checkChannelHealth rejects: its catch block returns for every
\* rejection of axios.head, so it never does
HealthRejects(o) == FALSE

\* checkChannelHealth taking every status from 200 on for live
checkChannelHealthNoUpper(o) ==
    IF o.kind = "response"
    THEN [status |-> IF o.status >= 200 THEN "live" ELSE "dead",
          httpStatus |-> o.status,
          responseTime |-> o.elapsed,
          contentType |-> o.contentType]
    ELSE [status |-> "dead",
          httpStatus |-> IF o.hasResponse /\ o.status # 0 THEN o.status ELSE 0,
          responseTime |-> o.elapsed,
          contentType |-> "null",
          error |-> o.code]

\* the object checkChannelHealth resolves with; the catch block's httpStatus
\* is error.response?.status || 0
checkChannelHealth(o) ==
    IF o.kind = "response"
    THEN [status |-> IF o.status >= 200 /\ o.status < 400
                     THEN "live" ELSE "dead",
          httpStatus |-> o.status,
          responseTime |-> o.elapsed,
          contentType |-> o.contentType]
    ELSE [status |-> "dead",
          httpStatus |-> IF o.hasResponse /\ o.status # 0 THEN o.status ELSE 0,
          responseTime |-> o.elapsed,
          contentType |-> "null",
          error |-> o.code]

\* { ...channel, ...health }
Merge(channel, health) ==
    [k \in DOMAIN channel \cup DOMAIN health |->
        IF k \in DOMAIN health THEN health[k] ELSE channel[k]]

\* { ...channel, status: 'invalid' }
MarkInvalid(channel) == [channel EXCEPT !.status = "invalid"]

\* !channel.url
NoUrl(channel) == channel.url = Null \/ channel.url = <<>>

\* WindowOf taking one channel too many
WindowOfWide(from, width, n) == (from + 1)..Min(from + width + 1, n)

\* WindowOf taking all the channels that are left
WindowOfRest(from, width, n) == (from + 1)..n

\* channels.slice(i, i + maxConcurrent), as positions of channels (1-based)
WindowOf(from, width, n) == (from + 1)..Min(from + width, n)

\* NextIndex stepping one channel too far
NextIndexSkip(from, width) == from + width + 1

\* i += maxConcurrent
NextIndex(from, width) == from + width

\* the elements of a set of positions, ascending
RECURSIVE Ascending(_)
Ascending(S) ==
    IF S = {} THEN <<>>
    ELSE LET lo == CHOOSE x \in S : \A y \in S : x <= y
         IN <<lo>> \o Ascending(S \ {lo})

\* for (...; i < channels.length; ...): batch = slice, batch.map(async ...)
\* runs every closure up to its first await, so every probe of the window is
\* issued, and a channel without url resolves to invalid at once
BatchStartWindow ==
    /\ pc = "batch_loop"
    /\ i < Len(toCheck)
    /\ LET W == WindowOf(i, maxConcurrent, Len(toCheck))
           probes == {k \in W : ~NoUrl(toCheck[k])}
       IN /\ windows' = Append(windows, W)
          /\ inflight' = probes
          /\ issued' = issued \o Ascending(probes)
          /\ batchResults' = [k \in W \ probes |-> MarkInvalid(toCheck[k])]
    /\ pc' = "batch_await"
    /\ UNCHANGED <<req, url, content, validContent, channels, toCheck,
                   maxConcurrent, i, results, outcome, overtaken, netlog,
                   response>>

\* axios.head of position k settles with o: checkChannelHealth resolves and
\* the closure of position k returns { ...channel, ...health }.  Were
\* checkChannelHealth to reject, Promise.all and batchCheckChannels would
\* reject with it, and the handler's catch would answer 500.
ProbeSettle(k, o) ==
    /\ pc = "batch_await"
    /\ k \in inflight
    /\ inflight' = inflight \ {k}
    /\ outcome' = (k :> o) @@ outcome
    /\ overtaken' = (overtaken \/ \E j \in inflight : j < k)
    /\ IF HealthRejects(o)
       THEN /\ pc' = IF req.isObject THEN "done" ELSE "batch_rejected"
            /\ response' = IF req.isObject
                           THEN [status |-> 500, error |-> "Analysis failed"]
                           ELSE response
            /\ UNCHANGED batchResults
       ELSE /\ batchResults' = (k :> Merge(toCheck[k], checkChannelHealth(o)))
                                   @@ batchResults
            /\ UNCHANGED <<pc, response>>
    /\ UNCHANGED <<req, url, content, validContent, channels, toCheck,
                   maxConcurrent, i, results, windows, issued, netlog>>

\* Promise.all resolves once every closure has: results.push(...batchResults),
\* in the order of the slice
BatchWindowDone ==
    /\ pc = "batch_await"
    /\ inflight = {}
    /\ results' = results \o
           [j \in 1..Cardinality(DOMAIN batchResults) |->
               batchResults[Ascending(DOMAIN batchResults)[j]]]
    /\ i' = NextIndex(i, maxConcurrent)
    /\ batchResults' = EmptyMap
    /\ pc' = "batch_loop"
    /\ UNCHANGED <<req, url, content, validContent, channels, toCheck,
                   maxConcurrent, inflight, windows, issued, outcome, overtaken,
                   netlog, response>>

\* the loop condition fails: return results
BatchReturn ==
    /\ pc = "batch_loop"
    /\ i >= Len(toCheck)
    /\ pc' = "batch_returned"
    /\ UNCHANGED <<req, url, content, validContent, channels, netlog,
                   response>>
    /\ UNCHANGED batchVars

-----------------------------------------------------------------------------
(* SpecBatch: batchCheckChannels called on every list of at most           *)
(* MaxBatchLen channels of BatchPool with every width in 1..MaxConc.       *)

BatchPool ==
    { [name |-> <<"CNN">>, group |-> <<"News">>,
       url |-> <<"http://", "a.test">>,
       status |-> "unknown", responseTime |-> NullTime],
      [name |-> <<"BBC">>, group |-> <<"Uncategorized">>,
       url |-> Null,
       status |-> "unknown", responseTime |-> NullTime] }

\* the k-th channel of an input list carries its position in its name
Numbered(cs) ==
    [k \in 1..Len(cs) |-> [cs[k] EXCEPT !.name = @ \o <<" ", ToString(k)>>]]

BatchInputs ==
    {Numbered(cs) : cs \in UNION {[1..n -> BatchPool] : n \in 0..MaxBatchLen}}

InitBatch ==
    /\ pc = "batch_loop"
    /\ toCheck \in BatchInputs
    /\ maxConcurrent \in 1..MaxConc
    /\ i = 0
    /\ results = <<>>
    /\ batchResults = EmptyMap
    /\ inflight = {}
    /\ windows = <<>>
    /\ issued = <<>>
    /\ outcome = EmptyMap
    /\ overtaken = FALSE
    /\ content = <<>>
    /\ validContent = FALSE
    /\ channels = <<>>
    /\ HandlerIdle

NextBatch ==
    \/ BatchStartWindow
    \/ \E k \in inflight : \E o \in ProbeOutcomes : ProbeSettle(k, o)
    \/ BatchWindowDone
    \/ BatchReturn

SpecBatch == InitBatch /\ [][NextBatch]_vars

-----------------------------------------------------------------------------
(* validateUrl, validateAnalyzeRequest and the /api/analyze handler.       *)

\* validator.isURL(s, {protocols: ['http', 'https'], require_protocol: true,
\* require_valid_protocol: true}) on the URLs of the model
IsURL(s) == Len(s) >= 2 /\ s[1] \in {"http://", "https://"}

\* validateUrl(url): u = [t, s], t the JavaScript type of the value and s its
\* characters when it is a string
validateUrl(u) ==
    IF u.t # "string" \/ u.s = <<>>
    THEN [valid |-> FALSE, url |-> Null, error |-> "URL is required"]
    ELSE IF Trim(u.s) = <<>>
    THEN [valid |-> FALSE, url |-> Null, error |-> "URL is required"]
    ELSE IF StrLen(Trim(u.s)) > MAX_URL_LENGTH
    THEN [valid |-> FALSE, url |-> Null, error |-> "URL exceeds maximum length"]
    ELSE IF ~IsURL(Trim(u.s))
    THEN [valid |-> FALSE, url |-> Null, error |-> "Invalid URL format"]
    ELSE [valid |-> TRUE, url |-> Trim(u.s), error |-> ""]

\* parseInt(v, 10): v = [kind, n, tenths], kind "num" for the number
\* n + tenths / 10, of which parseInt reads the digits before the decimal point
\* and so gives n; "nan" for a value parseInt gives NaN for, "undefined" for a
\* missing field
ParseIntIsNaN(v) == v.kind # "num"

\* parseInt(body.maxChannelsToCheck, 10) || 50, capped by Math.min
SanitizedMax(v) ==
    Min(IF ParseIntIsNaN(v) \/ v.n = 0 THEN DEFAULT_MAX_CHANNELS ELSE v.n,
        MAX_CHANNELS_TO_CHECK)

\* SanitizedCheck taking only a missing field for true
SanitizedCheckWhenGiven(v) == v # "undefined"

\* body.checkChannels !== false
SanitizedCheck(v) == v # "false"

validateAnalyzeRequest(body) ==
    IF ~body.isObject
    THEN [valid |-> FALSE, errors |-> <<"Invalid request body">>]
    ELSE LET urlValidation == validateUrl(body.url)
             e1 == IF ~urlValidation.valid
                   THEN <<urlValidation.error>> ELSE <<>>
             e2 == IF body.checkChannels \notin {"undefined", "true", "false"}
                   THEN <<"checkChannels must be a boolean">> ELSE <<>>
             e3 == IF /\ body.maxChannelsToCheck.kind # "undefined"
                      /\ \/ ParseIntIsNaN(body.maxChannelsToCheck)
                         \/ body.maxChannelsToCheck.n < 1
                         \/ body.maxChannelsToCheck.n > MAX_CHANNELS_TO_CHECK
                   THEN <<"maxChannelsToCheck must be between 1 and 100">>
                   ELSE <<>>
             e4 == IF body.unexpected THEN <<"Unexpected fields">> ELSE <<>>
             errors == e1 \o e2 \o e3 \o e4
         IN [valid |-> errors = <<>>,
             errors |-> errors,
             url |-> urlValidation.url,
             checkChannels |-> SanitizedCheck(body.checkChannels),
             maxChannelsToCheck |-> SanitizedMax(body.maxChannelsToCheck)]

\* isHttpUrl(url)
isHttpUrl(u) == u # <<>> /\ u[1] = "http://"

\* url.replace('http://', 'https://')
HttpsOf(u) == IF isHttpUrl(u) THEN <<"https://">> \o Tail(u) ELSE u

\* SliceTo without the cut
SliceToAll(s, n) == s

\* channels.slice(0, n)
SliceTo(s, n) == SubSeq(s, 1, Min(n, Len(s)))

\* channels.slice(n)
SliceFrom(s, n) == SubSeq(s, n + 1, Len(s))

\* array.filter(c => c.status === st).length
CountStatus(cs, st) == Cardinality({k \in 1..Len(cs) : cs[k].status = st})

\* Math.round(a / b) for integers a >= 0, b > 0
RoundDiv(a, b) == (2 * a + b) \div (2 * b)

\* a group name that is an array-index key of a JavaScript object ("1"),
\* which Object.entries lists before the other keys
IsIndexKey(name) == name = <<"1">>

\* the groups object after channels.forEach, as the sequence Object.entries
\* gives: index keys first, then the other keys in insertion order, each with
\* its count
RECURSIVE FirstSeen(_, _)
FirstSeen(cs, seen) ==
    IF cs = <<>> THEN <<>>
    ELSE IF Head(cs).group \in seen THEN FirstSeen(Tail(cs), seen)
    ELSE <<Head(cs).group>> \o FirstSeen(Tail(cs), seen \cup {Head(cs).group})

GroupEntries(cs) ==
    LET names == FirstSeen(cs, {})
        idx == SelectSeq(names, IsIndexKey)
        rest == SelectSeq(names, LAMBDA g : ~IsIndexKey(g))
        keys == idx \o rest
    IN [k \in 1..Len(keys) |->
           [name |-> keys[k],
            count |-> Cardinality({j \in 1..Len(cs) : cs[j].group = keys[k]})]]

\* entries.sort((a, b) => b.count - a.count): stable, count descending
RECURSIVE InsertByCount(_, _)
InsertByCount(sorted, e) ==
    IF sorted = <<>> THEN <<e>>
    ELSE IF Head(sorted).count >= e.count
    THEN <<Head(sorted)>> \o InsertByCount(Tail(sorted), e)
    ELSE <<e>> \o sorted

RECURSIVE SortByCount(_)
SortByCount(es) ==
    IF es = <<>> THEN <<>>
    ELSE InsertByCount(SortByCount(SubSeq(es, 1, Len(es) - 1)), es[Len(es)])

\* sum of responseTime
RECURSIVE SumTimes(_)
SumTimes(cs) ==
    IF cs = <<>> THEN 0 ELSE Head(cs).responseTime + SumTimes(Tail(cs))

\* UncheckedCount without Math.max
UncheckedCountUnclamped(n, cap) == n - cap

\* Math.max(0, channels.length - maxChannelsToCheck)
UncheckedCount(n, cap) == Max(0, n - cap)

\* LivePercentage dividing by the number of all channels
LivePercentageOfTotal(liveCount, cap, n) ==
    IF n > 0 THEN RoundDiv(liveCount * 100, n) ELSE 0

\* channels.length > 0
\*   ? Math.round((liveCount / Math.min(maxChannelsToCheck, channels.length))
\*                * 100)
\*   : 0
LivePercentage(liveCount, cap, n) ==
    IF n > 0 THEN RoundDiv(liveCount * 100, Min(cap, n)) ELSE 0

\* the analysis object sent with status 200: all = channels, checked =
\* checkedChannels, cap = maxChannelsToCheck
BuildAnalysis(u, all, checked, liveCount, deadCount, cap) ==
    LET liveWithResponse ==
            SelectSeq(checked,
                LAMBDA c : c.status = "live" /\ c.responseTime # 0)
    IN [status |-> 200,
        url |-> u,
        isHttp |-> isHttpUrl(u),
        summary |->
            [totalChannels |-> Len(all),
             checkedChannels |-> Min(cap, Len(all)),
             liveChannels |-> liveCount,
             deadChannels |-> deadCount,
             uncheckedChannels |-> UncheckedCount(Len(all), cap),
             livePercentage |-> LivePercentage(liveCount, cap, Len(all)),
             avgResponseTime |->
                 IF Len(liveWithResponse) > 0
                 THEN RoundDiv(SumTimes(liveWithResponse), Len(liveWithResponse))
                 ELSE 0,
             groupCount |-> Len(GroupEntries(all))],
        groups |-> SliceTo(SortByCount(GroupEntries(all)),
                           MAX_GROUPS_IN_RESPONSE),
        channels |-> SliceTo(checked, MAX_CHANNELS_IN_RESPONSE)]

ErrorResponse(code, msg) == [status |-> code, error |-> msg]

\* the sanitized request of the run
Sanitized == validateAnalyzeRequest(req)

\* validation fails: 400 with the joined errors
AnalyzeReject ==
    /\ pc = "request"
    /\ ~Sanitized.valid
    /\ response' = ErrorResponse(400, "validation")
    /\ pc' = "done"
    /\ UNCHANGED <<req, url, content, validContent, channels, netlog>>
    /\ UNCHANGED batchVars

\* validation passes, the url is http: tryHttpsUpgrade sends its HEAD
AnalyzeStartUpgrade ==
    /\ pc = "request"
    /\ Sanitized.valid
    /\ isHttpUrl(Sanitized.url)
    /\ url' = Sanitized.url
    /\ netlog' = Append(netlog, "HEAD")
    /\ pc' = "await_upgrade"
    /\ UNCHANGED <<req, content, validContent, channels, response>>
    /\ UNCHANGED batchVars

\* validation passes, the url is https: secureFetch sends its GET
AnalyzeStartFetch ==
    /\ pc = "request"
    /\ Sanitized.valid
    /\ ~isHttpUrl(Sanitized.url)
    /\ url' = Sanitized.url
    /\ netlog' = Append(netlog, "GET")
    /\ pc' = "await_fetch"
    /\ UNCHANGED <<req, content, validContent, channels, response>>
    /\ UNCHANGED batchVars

\* the HEAD of tryHttpsUpgrade settles (ok: it resolved); secureFetch sends
\* its GET
UpgradeSettle(ok) ==
    /\ pc = "await_upgrade"
    /\ url' = IF ok THEN HttpsOf(url) ELSE url
    /\ netlog' = Append(netlog, "GET")
    /\ pc' = "await_fetch"
    /\ UNCHANGED <<req, content, validContent, channels, response>>
    /\ UNCHANGED batchVars

\* secureFetch rejects (network error, status outside 200..399, body too big)
FetchFail ==
    /\ pc = "await_fetch"
    /\ response' = ErrorResponse(400, "Could not fetch playlist")
    /\ pc' = "done"
    /\ UNCHANGED <<req, url, content, validContent, channels, netlog>>
    /\ UNCHANGED batchVars

\* secureFetch resolves with text, which the validator refuses
FetchedInvalid(text) ==
    /\ pc = "await_fetch"
    /\ ~isValidPlaylistContent(text)
    /\ content' = text
    /\ validContent' = FALSE
    /\ response' = ErrorResponse(400, "Invalid playlist content")
    /\ pc' = "done"
    /\ UNCHANGED <<req, url, channels, netlog>>
    /\ UNCHANGED batchVars

\* FetchedEmpty answering as for content the validator refuses
FetchedEmptyAsInvalid(text) ==
    /\ pc = "await_fetch"
    /\ isValidPlaylistContent(text)
    /\ parsePlaylist(text) = <<>>
    /\ content' = text
    /\ validContent' = TRUE
    /\ channels' = <<>>
    /\ response' = ErrorResponse(400, "Invalid playlist content")
    /\ pc' = "done"
    /\ UNCHANGED <<req, url, netlog>>
    /\ UNCHANGED batchVars

\* secureFetch resolves with text, in which the parser finds no channel
FetchedEmpty(text) ==
    /\ pc = "await_fetch"
    /\ isValidPlaylistContent(text)
    /\ parsePlaylist(text) = <<>>
    /\ content' = text
    /\ validContent' = TRUE
    /\ channels' = <<>>
    /\ response' = ErrorResponse(400, "No channels found in playlist")
    /\ pc' = "done"
    /\ UNCHANGED <<req, url, netlog>>
    /\ UNCHANGED batchVars

\* secureFetch resolves with a playlist and checkChannels is false: the
\* analysis is built from the parsed channels and sent
FetchedNoCheck(text) ==
    /\ pc = "await_fetch"
    /\ isValidPlaylistContent(text)
    /\ parsePlaylist(text) # <<>>
    /\ ~Sanitized.checkChannels
    /\ content' = text
    /\ validContent' = TRUE
    /\ channels' = parsePlaylist(text)
    /\ response' = BuildAnalysis(url, channels', channels', 0, 0,
                                 Sanitized.maxChannelsToCheck)
    /\ pc' = "done"
    /\ UNCHANGED <<req, url, netlog>>
    /\ UNCHANGED batchVars

\* secureFetch resolves with a playlist and checkChannels is true:
\* batchCheckChannels(channels.slice(0, maxChannelsToCheck), 5, 8000) is called
FetchedStartBatch(text) ==
    /\ pc = "await_fetch"
    /\ isValidPlaylistContent(text)
    /\ parsePlaylist(text) # <<>>
    /\ Sanitized.checkChannels
    /\ content' = text
    /\ validContent' = TRUE
    /\ channels' = parsePlaylist(text)
    /\ toCheck' = SliceTo(channels', Sanitized.maxChannelsToCheck)
    /\ maxConcurrent' = ANALYZE_CONCURRENCY
    /\ i' = 0
    /\ results' = <<>>
    /\ pc' = "batch_loop"
    /\ UNCHANGED <<req, url, netlog, response, batchResults, inflight,
                   windows, issued, outcome, overtaken>>

\* the channels beyond the cutoff, marked unchecked
MarkUnchecked(cs) == [k \in 1..Len(cs) |-> [cs[k] EXCEPT !.status = "unchecked"]]

\* batchCheckChannels has returned: the unchecked channels are appended, the
\* live and dead channels counted, the analysis built and sent
AfterBatch ==
    /\ pc = "batch_returned"
    /\ req.isObject
    /\ LET cap == Sanitized.maxChannelsToCheck
           checkedChannels ==
               IF Len(channels) > cap
               THEN results \o MarkUnchecked(SliceFrom(channels, cap))
               ELSE results
       IN response' = BuildAnalysis(url, channels, checkedChannels,
                                    CountStatus(checkedChannels, "live"),
                                    CountStatus(checkedChannels, "dead"),
                                    cap)
    /\ pc' = "done"
    /\ UNCHANGED <<req, url, content, validContent, channels, netlog>>
    /\ UNCHANGED batchVars

-----------------------------------------------------------------------------
(* Spec: one /api/analyze request, from req.body to the response.          *)

UrlInputs ==
    { [t |-> "undefined", s |-> <<>>],
      [t |-> "number", s |-> <<>>],
      [t |-> "string", s |-> <<>>],
      [t |-> "string", s |-> <<" ">>],
      [t |-> "string", s |-> <<"https://", "U2041", "x">>],
      [t |-> "string", s |-> <<"ftp://", "p.test">>],
      [t |-> "string", s |-> <<"p.test">>],
      [t |-> "string", s |-> <<"http://", "p.test">>],
      [t |-> "string", s |-> <<" ", "https://", "p.test">>] }

CheckInputs == {"undefined", "true", "false", "string"}

MaxInputs ==
    { [kind |-> "undefined", n |-> 0, tenths |-> 0],
      [kind |-> "nan", n |-> 0, tenths |-> 0],
      [kind |-> "num", n |-> MAX_CHANNELS_TO_CHECK, tenths |-> 5] }
    \cup {[kind |-> "num", n |-> n, tenths |-> 0] :
             n \in (0..MaxCap) \cup {MAX_CHANNELS_TO_CHECK,
                                     MAX_CHANNELS_TO_CHECK + 1}}

\* every req.body that is an object
Bodies ==
    [isObject : {TRUE}, url : UrlInputs, checkChannels : CheckInputs,
     maxChannelsToCheck : MaxInputs, unexpected : BOOLEAN]

\* the bodies that pass validation and are run to the end: each url and
\* checkChannels with the cap left out, and each cap with the https url and a
\* checkChannels that is given
RunToEnd(body) ==
    \/ body.maxChannelsToCheck.kind = "undefined"
    \/ /\ body.url.s = <<" ", "https://", "p.test">>
       /\ body.checkChannels # "undefined"

\* the requests: no body, every body that validation rejects, and the
\* accepted bodies that are run to the end
Requests ==
    {NoRequest}
    \cup {body \in Bodies :
             validateAnalyzeRequest(body).valid => RunToEnd(body)}

\* entry k of a fetched playlist: its lines
Entry(k) ==
    CASE k % 3 = 1 ->
            << <<"#EXTINF:", "-", "1", " ", "group-title", "=", "\"", "News",
                 "\"", ",", "CNN">>,
               <<"http://", "a.test">> >>
      [] k % 3 = 2 ->
            << <<"https://", "b.test">> >>
      [] OTHER ->
            << <<"#EXTINF:", "-", "1", " ", "group-title", "=", "\"", "1",
                 "\"", ",", "BBC">>,
               <<"http://", "b.test">> >>

RECURSIVE EntryLines(_)
EntryLines(n) == IF n = 0 THEN <<>> ELSE EntryLines(n - 1) \o Entry(n)

\* a playlist of n entries under its #EXTM3U header
Playlist(n) == JoinLines(<< <<"#EXTM3U">> >> \o EntryLines(n))

FetchedTexts ==
    {Playlist(n) : n \in 0..MaxEntries}
    \cup { <<"<", "abc">>, <<"HTTP://", "a.test">>, <<>> }

Init ==
    /\ pc = "request"
    /\ req \in Requests
    /\ url = <<>>
    /\ content = <<>>
    /\ validContent = FALSE
    /\ channels = <<>>
    /\ netlog = <<>>
    /\ response = NoResponse
    /\ BatchIdle

Next ==
    \/ AnalyzeReject
    \/ AnalyzeStartUpgrade
    \/ AnalyzeStartFetch
    \/ \E ok \in BOOLEAN : UpgradeSettle(ok)
    \/ FetchFail
    \/ \E text \in FetchedTexts : FetchedInvalid(text)
    \/ \E text \in FetchedTexts : FetchedEmpty(text)
    \/ \E text \in FetchedTexts : FetchedNoCheck(text)
    \/ \E text \in FetchedTexts : FetchedStartBatch(text)
    \/ BatchStartWindow
    \/ \E k \in inflight : \E o \in ProbeOutcomes : ProbeSettle(k, o)
    \/ BatchWindowDone
    \/ BatchReturn
    \/ AfterBatch

Spec == Init /\ [][Next]_vars

-----------------------------------------------------------------------------
(* Claims about batchCheckChannels, under SpecBatch.                       *)

\* C1: batchCheckChannels over n channels with any width >= 1 returns exactly
\* n results, and result k carries the name, group and url of input channel
\* k, whatever order the probes settle in.
C1_BatchOrder ==
    pc = "batch_returned" =>
        /\ Len(results) = Len(toCheck)
        /\ \A k \in 1..Len(results) :
              /\ results[k].name = toCheck[k].name
              /\ results[k].group = toCheck[k].group
              /\ results[k].url = toCheck[k].url

\* five channels, width 2, returned after a window in which a probe settled
\* before the probe of a lower position
C1_Witness ==
    /\ pc = "batch_returned"
    /\ Len(toCheck) = 5
    /\ maxConcurrent = 2
    /\ overtaken

\* C2: at every moment the probes issued and not yet settled are at most
\* maxConcurrent.
C2_InFlightBounded == Cardinality(inflight) <= maxConcurrent

\* a full window in flight, more channels waiting behind it
C2_Witness ==
    /\ pc = "batch_await"
    /\ maxConcurrent >= 2
    /\ Cardinality(inflight) = maxConcurrent
    /\ Len(toCheck) > i + maxConcurrent

\* ceil(n / c)
CeilDiv(n, c) == (n + c - 1) \div c

\* C3: the probes are issued in ceil(n/c) windows of consecutive channels,
\* all of size c except possibly the last, and no probe of a window is issued
\* before every probe of the windows before it has settled.
C3_Windows ==
    LET n == Len(toCheck)
        c == maxConcurrent
    IN /\ \A w \in 1..Len(windows) :
             windows[w] = ((w - 1) * c + 1)..Min(w * c, n)
       /\ Len(windows) <= CeilDiv(n, c)
       /\ pc = "batch_returned" => Len(windows) = CeilDiv(n, c)
       /\ \A w \in 1..Len(windows) :
             \A k \in windows[w] :
                /\ k \in inflight => w = Len(windows)
                /\ (w < Len(windows) /\ ~NoUrl(toCheck[k]))
                       => k \in DOMAIN outcome
       /\ \A a \in 1..Len(issued) :
             \A w \in 1..Len(windows) :
                (issued[a] \in windows[w] /\ w > 1)
                    => \A k \in windows[w - 1] :
                          ~NoUrl(toCheck[k]) =>
                              \E b \in 1..(a - 1) : issued[b] = k

\* five channels, width 2: three windows (2, 2, 1), a probe of the first
\* window having failed
C3_Witness ==
    /\ pc = "batch_returned"
    /\ Len(toCheck) = 5
    /\ maxConcurrent = 2
    /\ Len(windows) = 3
    /\ windows[3] = {5}
    /\ Len(issued) = 5
    /\ outcome[1].kind = "error"

-----------------------------------------------------------------------------
(* SpecParse: the validator and the parser applied to every text of at     *)
(* most MaxLines lines drawn from LineSet.                                 *)

LineSet ==
    { <<>>,
      <<" ">>,
      <<"#EXTM3U">>,
      <<" ", "#extm3u">>,
      <<"<", "abc">>,
      <<"#EXTINF:", "-", "1", " ", "group-title", "=", "\"", "News", "\"",
        ",", "CNN">>,
      <<"#EXTINF:", "-", "1", ",", " ", "BBC", " ">>,
      <<"#EXTINF:", "-", "1">>,
      <<"#EXTINF:", "-", "1", " ", "tvg-id", "=", "\"", "x", "\"", ",",
        "Fox", " ", "GROUP-TITLE", "=", "\"", "Kids", "\"">>,
      <<"#extinf:", "-", "1", ",", "abc">>,
      <<"http://", "a.test">>,
      <<" ", "https://", "b.test", " ">>,
      <<"HTTP://", "a.test">>,
      <<"#EXTINF:", "-", "1", " ", "group-title", "=", "\"", "W100", "x",
        "\"", ",", "W200", "x">>,
      <<"http://", "U2041", "x">> }

Texts == {JoinLines(ls) : ls \in UNION {[1..n -> LineSet] : n \in 0..MaxLines}}

InitParse ==
    /\ pc = "text"
    /\ content \in Texts
    /\ validContent = FALSE
    /\ channels = <<>>
    /\ HandlerIdle
    /\ BatchIdle

\* the two pure functions applied to the text
ApplyToText ==
    /\ pc = "text"
    /\ pc' = "applied"
    /\ validContent' = isValidPlaylistContent(content)
    /\ channels' = parsePlaylist(content)
    /\ UNCHANGED <<req, url, content, netlog, response>>
    /\ UNCHANGED batchVars

NextParse == ApplyToText

SpecParse == InitParse /\ [][NextParse]_vars

-----------------------------------------------------------------------------
(* Claims about the parser and the validator, under SpecParse.             *)

\* the lines of a text that are not blank (empty or whitespace only)
NonBlankLineCount(text) ==
    LET raw == Split(text)
    IN Cardinality({k \in 1..Len(raw) :
                       \E j \in 1..Len(raw[k]) : raw[k][j] \notin Whitespace})

\* C6: the sequence returned by parsePlaylist is no longer than the number of
\* non-blank lines of the text, and every channel of it has a non-null url.
C6_ParseBounded ==
    pc = "applied" =>
        /\ Len(channels) <= NonBlankLineCount(content)
        /\ \A k \in 1..Len(channels) : channels[k].url # Null

\* a text with a metadata line left without URL and a channel emitted
C6_Witness ==
    /\ pc = "applied"
    /\ Len(channels) >= 1
    /\ Len(channels) < NonBlankLineCount(content)
    /\ \E k \in 1..Len(PlaylistLines(content)) :
          IsExtinfLine(PlaylistLines(content)[k])

\* line j of ls is a metadata line followed by another metadata line, or by
\* the end of input, before any URL line
Dangling(ls, j) ==
    /\ IsExtinfLine(ls[j])
    /\ \A u \in (j + 1)..Len(ls) :
          IsUrlLine(ls[u]) =>
              \E m \in (j + 1)..(u - 1) : IsExtinfLine(ls[m])

\* ls without its line j
RemoveLine(ls, j) == SubSeq(ls, 1, j - 1) \o SubSeq(ls, j + 1, Len(ls))

\* the text after the last comma of a metadata line, trimmed ("Unknown"
\* without comma)
NameOfLine(line) ==
    IF \E k \in 1..Len(line) : line[k] = ","
    THEN LET c == CHOOSE k \in 1..Len(line) :
                     line[k] = "," /\ \A j \in (k + 1)..Len(line) : line[j] # ","
         IN Trim(SubSeq(line, c + 1, Len(line)))
    ELSE <<"Unknown">>

\* C7: a metadata line followed by another metadata line, or by the end of
\* input, before any URL line yields no channel: the output is the output of
\* the text without that line, and its name is on no emitted channel unless
\* another metadata line carries the same name.
C7_DanglingDropped ==
    pc = "applied" =>
        LET ls == PlaylistLines(content)
        IN \A j \in 1..Len(ls) :
              Dangling(ls, j) =>
                  /\ channels = parsePlaylist(JoinLines(RemoveLine(ls, j)))
                  /\ (\A m \in (1..Len(ls)) \ {j} :
                         IsExtinfLine(ls[m]) =>
                             Substring0(NameOfLine(ls[m]), NAME_LIMIT)
                                 # Substring0(NameOfLine(ls[j]), NAME_LIMIT))
                     => \A k \in 1..Len(channels) :
                           channels[k].name
                               # Substring0(NameOfLine(ls[j]), NAME_LIMIT)

\* a metadata line replaced by the next metadata line, which gets the URL
C7_Witness ==
    /\ pc = "applied"
    /\ LET ls == PlaylistLines(content)
       IN /\ Len(ls) = 3
          /\ Dangling(ls, 1)
          /\ IsExtinfLine(ls[2])
          /\ NameOfLine(ls[1]) # NameOfLine(ls[2])
          /\ IsUrlLine(ls[3])
          /\ Len(channels) = 1

\* the metadata line that feeds URL line u of ls: the nearest line before u
\* that is a metadata or a URL line, when it is a metadata line; 0 otherwise
FeederOf(ls, u) ==
    LET before == {m \in 1..(u - 1) : IsExtinfLine(ls[m]) \/ IsUrlLine(ls[m])}
    IN IF before = {} THEN 0
       ELSE LET m == CHOOSE m \in before : \A x \in before : x <= m
            IN IF IsExtinfLine(ls[m]) THEN m ELSE 0

\* the URL lines of ls, as the increasing sequence of their positions
RECURSIVE UrlPositions(_, _)
UrlPositions(ls, from) ==
    IF from > Len(ls) THEN <<>>
    ELSE (IF IsUrlLine(ls[from]) THEN <<from>> ELSE <<>>)
         \o UrlPositions(ls, from + 1)

\* the channel the pairing rule gives URL line u, the k-th URL line of ls;
\* cut(s, n) is what the rule does to a string with limit n
PairedChannel(ls, u, k, cut(_, _)) ==
    LET m == FeederOf(ls, u)
    IN IF m # 0
       THEN [name |-> cut(NameOfLine(ls[m]), NAME_LIMIT),
             group |-> cut(GroupTitleOr(ParseAttrs(Tail(ls[m]))), GROUP_LIMIT),
             url |-> cut(ls[u], MAX_URL_LENGTH),
             status |-> "unknown", responseTime |-> NullTime]
       ELSE [name |-> <<"Channel", " ", ToString(k)>>,
             group |-> <<"Uncategorized">>,
             url |-> cut(ls[u], MAX_URL_LENGTH),
             status |-> "unknown", responseTime |-> NullTime]

PairedOutput(text, cut(_, _)) ==
    LET ls == PlaylistLines(text)
        us == UrlPositions(ls, 1)
    IN [k \in 1..Len(us) |-> PairedChannel(ls, us[k], k, cut)]

Uncut(s, n) == s

\* C8 as stated: every URL line emits one channel, named, grouped and
\* addressed in full by the metadata line that feeds it (or "Channel k",
\* "Uncategorized"), and no metadata line feeds two channels.
C8_PairingUncut ==
    pc = "applied" => channels = PairedOutput(content, Uncut)

\* C8 amended: the same pairing, the name cut to its first 200 characters,
\* the group to its first 100 and the url to its first 2048.
C8_Pairing ==
    pc = "applied" =>
        /\ channels = PairedOutput(content, Substring0)
        /\ LET ls == PlaylistLines(content)
               us == UrlPositions(ls, 1)
           IN \A a, b \in 1..Len(us) :
                 (a # b /\ FeederOf(ls, us[a]) # 0)
                     => FeederOf(ls, us[a]) # FeederOf(ls, us[b])

\* metadata, URL, URL: one paired channel, then "Channel 2"
C8_Witness ==
    /\ pc = "applied"
    /\ LET ls == PlaylistLines(content)
       IN /\ Len(ls) = 3
          /\ IsExtinfLine(ls[1]) /\ IsUrlLine(ls[2]) /\ IsUrlLine(ls[3])
          /\ Len(channels) = 2
          /\ channels[1].name = NameOfLine(ls[1])
          /\ channels[2].name = <<"Channel", " ", "2">>

\* the first token of s that is not whitespace, "" when there is none
FirstVisible(s) == IF Trim(s) = <<>> THEN "" ELSE LowerTok(Head(Trim(s)))

\* C9 as stated: true exactly when, case-insensitively, the text starts with
\* #EXTM3U, or contains #EXTINF:, or has a line matching ^https?://
LooksLikeAsStated(text) ==
    \/ text # <<>> /\ LowerTok(text[1]) = "#extm3u"
    \/ \E k \in 1..Len(text) : LowerTok(text[k]) = "#extinf:"
    \/ \E k \in 1..Len(Split(text)) :
          LET line == Split(text)[k]
          IN line # <<>> /\ LowerTok(line[1]) \in {"http://", "https://"}

C9_ValidatorAsStated ==
    pc = "applied" => validContent = LooksLikeAsStated(content)

\* C9 amended: true exactly when, case-insensitively, the text without its
\* leading whitespace starts with #EXTM3U, or the text contains #EXTINF:, or
\* a line without its leading whitespace matches ^https?://
LooksLikeAmended(text) ==
    \/ FirstVisible(text) = "#extm3u"
    \/ \E k \in 1..Len(text) : LowerTok(text[k]) = "#extinf:"
    \/ \E k \in 1..Len(Split(text)) :
          FirstVisible(Split(text)[k]) \in {"http://", "https://"}

C9_Validator ==
    pc = "applied" => validContent = LooksLikeAmended(content)

\* a text accepted only because leading whitespace is stripped, and one
\* rejected
C9_Witness ==
    /\ pc = "applied"
    /\ validContent
    /\ ~LooksLikeAsStated(content)
    /\ Head(content) = " "

-----------------------------------------------------------------------------
(* Claims about an analysis run, under Spec.                               *)

\* the cap the request asks for: maxChannelsToCheck, 50 when it is missing
RequestedCap ==
    IF req.maxChannelsToCheck.kind = "num"
    THEN req.maxChannelsToCheck.n ELSE DEFAULT_MAX_CHANNELS

\* the number of channels of the fetched playlist: its URL lines
ParsedCount == Len(UrlPositions(PlaylistLines(content), 1))

\* C4: a run with checkChannels = false never issues a channel probe, and
\* every channel of its result has status unknown.
C4_NoCheckNoProbe ==
    (req.isObject /\ req.checkChannels = "false") =>
        /\ issued = <<>>
        /\ inflight = {}
        /\ windows = <<>>
        /\ response.status = 200 =>
              /\ Len(response.channels) = ParsedCount
              /\ \A k \in 1..Len(response.channels) :
                    response.channels[k].status = "unknown"

\* a successful analysis of several channels with checkChannels = false
C4_Witness ==
    /\ pc = "done"
    /\ req.checkChannels = "false"
    /\ response.status = 200
    /\ Len(response.channels) >= 2

\* C5: in every successful analysis of N parsed channels with cap m,
\* totalChannels = N, checkedChannels = min(m, N), uncheckedChannels =
\* N - min(m, N) and liveChannels + deadChannels + uncheckedChannels <=
\* totalChannels.
C5_SummaryCounts ==
    response.status = 200 =>
        LET N == ParsedCount
            m == RequestedCap
            s == response.summary
        IN /\ m \in 1..MAX_CHANNELS_TO_CHECK
           /\ s.totalChannels = N
           /\ s.checkedChannels = Min(m, N)
           /\ s.uncheckedChannels = N - Min(m, N)
           /\ s.liveChannels + s.deadChannels + s.uncheckedChannels
                  <= s.totalChannels

\* a successful analysis with channels beyond the cap, live and dead ones
\* under it
C5_Witness ==
    /\ response.status = 200
    /\ response.summary.uncheckedChannels > 0
    /\ response.summary.liveChannels > 0
    /\ response.summary.deadChannels > 0
    /\ response.summary.totalChannels > response.summary.checkedChannels

\* a probe outcome that is a failure: a rejection, or a status outside
\* 200..399
Failed(o) == o.kind = "error" \/ o.status < 200 \/ o.status >= 400

\* C10: a probe that fails sets status dead on its own channel only: every
\* result is decided by its own channel and its own probe's outcome, the batch
\* returns a result for every channel, and the run answers with a successful
\* analysis that carries those results.
C10_ProbeFailureLocal ==
    /\ \A k \in 1..Len(results) :
          /\ results[k].name = toCheck[k].name
          /\ results[k].group = toCheck[k].group
          /\ results[k].url = toCheck[k].url
          /\ k \in DOMAIN outcome
          /\ results[k].status = IF Failed(outcome[k]) THEN "dead" ELSE "live"
          /\ results[k].httpStatus = outcome[k].status
          /\ results[k].responseTime = outcome[k].elapsed
    /\ pc \in {"batch_returned", "done"} => Len(results) = Len(toCheck)
    /\ (pc = "done" /\ issued # <<>>) =>
          /\ response.status = 200
          /\ \A k \in 1..Len(results) : response.channels[k] = results[k]
          /\ response.summary.deadChannels =
                 Cardinality({k \in DOMAIN outcome : Failed(outcome[k])})
          /\ response.summary.liveChannels =
                 Cardinality({k \in DOMAIN outcome : ~Failed(outcome[k])})

\* a successful analysis in which a probe failed by a network error, another
\* by its status, and a later probe of the same window succeeded
C10_Witness ==
    /\ pc = "done"
    /\ response.status = 200
    /\ Len(results) >= 3
    /\ outcome[1].kind = "error"
    /\ outcome[2].kind = "response" /\ Failed(outcome[2])
    /\ ~Failed(outcome[3])
    /\ response.channels[1].status = "dead"
    /\ response.channels[3].status = "live"


-----------------------------------------------------------------------------
(* SpecProbe: one channel probed, axios.head settling in every way of      *)
(* HealthOutcomes.                                                         *)

\* statuses on both sides of the two limits of the live range, and others
HealthStatuses == {100, 199, 200, 204, 301, 399, 400, 404, 500, 599}

HealthElapsed == {0, 12, 8000}

HealthOutcomes ==
    [kind : {"response"}, hasResponse : {TRUE}, status : HealthStatuses,
     contentType : {"video/mp2t", "null"}, code : {""},
     elapsed : HealthElapsed]
    \cup [kind : {"error"}, hasResponse : {TRUE},
          status : {0, 200, 302, 404, 503}, contentType : {"null"},
          code : {"ECONNABORTED", "ERR_BAD_RESPONSE"},
          elapsed : HealthElapsed]
    \cup [kind : {"error"}, hasResponse : {FALSE}, status : {0},
          contentType : {"null"},
          code : {"ECONNABORTED", "ENOTFOUND", "socket hang up"},
          elapsed : HealthElapsed]

InitProbe ==
    /\ pc = "batch_loop"
    /\ toCheck \in {Numbered(<<c>>) : c \in {b \in BatchPool : ~NoUrl(b)}}
    /\ maxConcurrent = ANALYZE_CONCURRENCY
    /\ i = 0
    /\ results = <<>>
    /\ batchResults = EmptyMap
    /\ inflight = {}
    /\ windows = <<>>
    /\ issued = <<>>
    /\ outcome = EmptyMap
    /\ overtaken = FALSE
    /\ content = <<>>
    /\ validContent = FALSE
    /\ channels = <<>>
    /\ HandlerIdle

NextProbe ==
    \/ BatchStartWindow
    \/ \E k \in inflight : \E o \in HealthOutcomes : ProbeSettle(k, o)
    \/ BatchWindowDone
    \/ BatchReturn

SpecProbe == InitProbe /\ [][NextProbe]_vars

\* C11: the probe classifies every outcome as live or dead: live exactly when
\* a response arrives with status s, 200 <= s < 400, and then httpStatus = s;
\* dead for any other response status s, with httpStatus = s; dead for a
\* rejected request (network error, timeout), with httpStatus the status of
\* the error's response when it has one and 0 otherwise; responseTime is the
\* elapsed time in every case.
C11_ProbeClassifies ==
    \A k \in 1..Len(results) :
        k \in DOMAIN outcome =>
            LET o == outcome[k]
                h == results[k]
            IN /\ h.status \in {"live", "dead"}
               /\ h.status = "live" <=>
                      (o.kind = "response" /\ o.status >= 200 /\ o.status < 400)
               /\ o.kind = "response" => h.httpStatus = o.status
               /\ o.kind = "error" =>
                      h.httpStatus = (IF o.hasResponse THEN o.status ELSE 0)
               /\ "responseTime" \in DOMAIN h
               /\ h.responseTime = o.elapsed

\* a rejection that carries a response of status 404 has been classified
C11_Witness ==
    /\ pc = "batch_returned"
    /\ Len(results) = 1
    /\ outcome[1].kind = "error"
    /\ outcome[1].hasResponse
    /\ outcome[1].status = 404
    /\ results[1].status = "dead"
    /\ results[1].httpStatus = 404
    /\ results[1].responseTime = 8000

-----------------------------------------------------------------------------
(* More claims about an analysis run, under Spec.                          *)

\* the number of outbound network operations the run has issued so far:
\* upgrade HEAD and playlist GET (netlog), channel probes (issued)
OutboundCount == Len(netlog) + Len(issued)

\* the invalid inputs: URL missing, empty or not a string, URL longer than
\* MAX_URL_LENGTH, protocol other than http(s), maxChannelsToCheck a number
\* outside 1..100, checkChannels not a boolean, an unexpected field
InvalidInput(r) ==
    \/ r.url.t # "string"
    \/ r.url.s = <<>>
    \/ StrLen(r.url.s) > MAX_URL_LENGTH
    \/ Trim(r.url.s) = <<>>
    \/ Head(Trim(r.url.s)) \notin {"http://", "https://"}
    \/ /\ r.maxChannelsToCheck.kind = "num"
       /\ \/ 10 * r.maxChannelsToCheck.n + r.maxChannelsToCheck.tenths < 10
          \/ 10 * r.maxChannelsToCheck.n + r.maxChannelsToCheck.tenths
                 > 10 * MAX_CHANNELS_TO_CHECK
    \/ r.checkChannels \notin {"undefined", "true", "false"}
    \/ r.unexpected

\* C12: a request whose input is invalid is answered with an error before any
\* outbound network operation (upgrade HEAD, playlist fetch, channel probe) is
\* issued, and none is issued for it afterwards.
C12_InvalidRejectedFirst ==
    InvalidInput(req) =>
        /\ OutboundCount = 0
        /\ pc \in {"request", "done"}
        /\ pc = "done" => response = ErrorResponse(400, "validation")

\* the fetched texts that pass the validator and in which the parser finds no
\* channel
EmptyPlaylists ==
    {text \in FetchedTexts :
        isValidPlaylistContent(text) /\ parsePlaylist(text) = <<>>}

\* C13: when the fetched content passes the validator and the parser finds no
\* channel in it, the run ends with the empty-playlist error, whose reason
\* differs from those of a failed fetch and of refused content; no channel is
\* probed and no analysis result is sent.
C13_EmptyPlaylist ==
    /\ content \in FetchedTexts
    /\ content \in EmptyPlaylists =>
        /\ pc = "done"
        /\ response.status = 400
        /\ response.error = "No channels found in playlist"
        /\ response.error \notin {"Could not fetch playlist",
                                  "Invalid playlist content", "validation"}
        /\ "summary" \notin DOMAIN response
        /\ issued = <<>>
        /\ inflight = {}

\* a fetched text the validator accepts for its upper-case HTTP:// line, in
\* which the parser finds nothing, has been answered
C13_Witness ==
    /\ pc = "done"
    /\ content = <<"HTTP://", "a.test">>
    /\ isValidPlaylistContent(content)
    /\ parsePlaylist(content) = <<>>
    /\ response = ErrorResponse(400, "No channels found in playlist")

\* C14: a run with checkChannels = true over N parsed channels and cap m
\* probes the first min(m, N) channels, each once and no other, so never more
\* than 100; in its result every channel at a position > m is unchecked and
\* every channel at a position <= m is live or dead.
C14_ProbesUnderCap ==
    LET N == ParsedCount
        m == RequestedCap
    IN /\ Len(issued) <= Min(m, N)
       /\ Len(issued) <= MAX_CHANNELS_TO_CHECK
       /\ \A j \in 1..Len(issued) : issued[j] = j
       /\ (response.status = 200 /\ req.checkChannels # "false") =>
             /\ issued = [j \in 1..Min(m, N) |-> j]
             /\ Len(response.channels) = N
             /\ \A k \in 1..N :
                   /\ k > m => response.channels[k].status = "unchecked"
                   /\ k <= m => response.channels[k].status \in {"live", "dead"}

\* a checked analysis of more channels than the cap of 2: two probes, the
\* third channel unchecked
C14_Witness ==
    /\ pc = "done"
    /\ response.status = 200
    /\ req.checkChannels = "true"
    /\ RequestedCap = 2
    /\ ParsedCount > 2
    /\ issued = <<1, 2>>
    /\ response.channels[1].status = "live"
    /\ response.channels[2].status = "dead"
    /\ response.channels[3].status = "unchecked"

\* the position of the first channel of cs whose group is g
FirstPosition(cs, g) == CHOOSE k \in 1..Len(cs) :
    cs[k].group = g /\ \A j \in 1..(k - 1) : cs[j].group # g

\* C15: the groups of an analysis result are the histogram of the groups of
\* all parsed channels: one entry per distinct group with its number of
\* channels, ordered by count descending, entries of equal count in the order
\* in which their groups first occur in the playlist, cut to the first 50;
\* groupCount is the number of distinct groups.
C15_GroupHistogram ==
    response.status = 200 =>
        LET all == parsePlaylist(content)
            distinct == {all[k].group : k \in 1..Len(all)}
            count(g) == Cardinality({k \in 1..Len(all) : all[k].group = g})
            gs == response.groups
        IN /\ response.summary.groupCount = Cardinality(distinct)
           /\ Len(gs) = Min(Cardinality(distinct), MAX_GROUPS_IN_RESPONSE)
           /\ \A a \in 1..Len(gs) :
                 /\ gs[a].name \in distinct
                 /\ gs[a].count = count(gs[a].name)
           /\ \A a, b \in 1..Len(gs) :
                 a < b =>
                    /\ gs[a].name # gs[b].name
                    /\ gs[a].count >= gs[b].count
                    /\ gs[a].count = gs[b].count =>
                          FirstPosition(all, gs[a].name)
                              < FirstPosition(all, gs[b].name)

\* C16: livePercentage is an integer in 0..100, an integer nearest to
\* liveChannels * 100 / checkedChannels, where checkedChannels is min(m, N)
\* and not the total N; it is 0 when no channel was probed, and its divisor is
\* never 0.
C16_LivePercentage ==
    response.status = 200 =>
        LET s == response.summary
            p == s.livePercentage
            c == Min(RequestedCap, ParsedCount)
            L == Cardinality({k \in DOMAIN outcome : ~Failed(outcome[k])})
        IN /\ p \in 0..100
           /\ c > 0
           /\ s.checkedChannels = c
           /\ s.liveChannels = L
           /\ 2 * (100 * L - p * c) <= c
           /\ 2 * (p * c - 100 * L) <= c
           /\ (req.checkChannels = "false" \/ issued = <<>>) => p = 0

\* two of three probed channels live, three more channels beyond the cap:
\* 67 per cent, where the total of six would give 33
C16_Witness ==
    /\ pc = "done"
    /\ response.status = 200
    /\ RequestedCap = 3
    /\ ParsedCount = 6
    /\ response.summary.liveChannels = 2
    /\ response.summary.livePercentage = 67

-----------------------------------------------------------------------------
(* SpecLive: runs of the handler in which every step that can be taken is  *)
(* taken in the end.  The continuations of the handler and of              *)
(* batchCheckChannels are run by the event loop as soon as they are ready; *)
(* the HEAD of tryHttpsUpgrade and the GET of secureFetch settle within    *)
(* their axios timeouts (3000 and 30000 ms); every axios.head of           *)
(* checkChannelHealth settles, within its timeout of 8000 ms at the        *)
(* latest.                                                                 *)

LiveRequests ==
    { NoRequest,
      [isObject |-> TRUE,
       url |-> [t |-> "string", s |-> <<"http://", "p.test">>],
       checkChannels |-> "true",
       maxChannelsToCheck |-> [kind |-> "undefined", n |-> 0, tenths |-> 0],
       unexpected |-> FALSE],
      [isObject |-> TRUE,
       url |-> [t |-> "string", s |-> <<"http://", "p.test">>],
       checkChannels |-> "undefined",
       maxChannelsToCheck |-> [kind |-> "num", n |-> MaxCap, tenths |-> 0],
       unexpected |-> FALSE],
      [isObject |-> TRUE,
       url |-> [t |-> "string", s |-> <<" ", "https://", "p.test">>],
       checkChannels |-> "false",
       maxChannelsToCheck |-> [kind |-> "undefined", n |-> 0, tenths |-> 0],
       unexpected |-> FALSE] }

InitLive == Init /\ req \in LiveRequests

\* the steps the event loop runs without waiting for the network
HandlerStep ==
    \/ AnalyzeReject
    \/ AnalyzeStartUpgrade
    \/ AnalyzeStartFetch
    \/ BatchStartWindow
    \/ BatchWindowDone
    \/ BatchReturn

\* the continuation of the handler after await batchCheckChannels, by its
\* guard and its change of pc: AfterBatch is the only step of Next that leaves
\* pc = "batch_returned", and it can be taken whenever its guard holds
AfterBatchRuns == pc = "batch_returned" /\ req.isObject /\ pc' = "done"

\* the HEAD of tryHttpsUpgrade or the GET of secureFetch settles
FetchSettle ==
    \/ \E ok \in BOOLEAN : UpgradeSettle(ok)
    \/ FetchFail
    \/ \E text \in FetchedTexts :
          \/ FetchedInvalid(text)
          \/ FetchedEmpty(text)
          \/ FetchedNoCheck(text)
          \/ FetchedStartBatch(text)

\* the outcomes of a probe in these runs: a live response and a timeout
LiveOutcomes == {o \in ProbeOutcomes : o.status # 404}

\* an axios.head of checkChannelHealth settles
AnyProbeSettle == \E k \in inflight : \E o \in LiveOutcomes : ProbeSettle(k, o)

NextLive == HandlerStep \/ AfterBatch \/ FetchSettle \/ AnyProbeSettle

Fairness ==
    /\ WF_vars(HandlerStep)
    /\ WF_pc(AfterBatchRuns)
    /\ WF_vars(FetchSettle)
    /\ WF_vars(AnyProbeSettle)

SpecLive == InitLive /\ [][NextLive]_vars /\ Fairness

\* the probe of position k ran into its timeout
TimedOut(k) == k \in DOMAIN outcome /\ outcome[k].code = "ECONNABORTED"

\* C17: when every issued probe settles in the end, batchCheckChannels
\* returns in the end and the request is answered; a probe that ran into its
\* timeout comes back as dead, and the window after its own is started
\* whenever there is one.
C17_Terminates ==
    /\ [](\A k \in 1..Len(results) :
             TimedOut(k) => results[k].status = "dead")
    /\ (pc = "batch_loop") ~> (pc = "batch_returned")
    /\ <>(pc = "done" /\ response # NoResponse)
    /\ \A w \in 1..MaxEntries :
          (/\ Len(windows) = w
           /\ \E k \in windows[w] : TimedOut(k)
           /\ Len(toCheck) > w * maxConcurrent)
              ~> (Len(windows) > w)

\* an answered analysis of two windows, a probe of the first of which ran
\* into its timeout
C17_Witness ==
    /\ pc = "done"
    /\ response.status = 200
    /\ Len(windows) = 2
    /\ TimedOut(1)
    /\ response.channels[1].status = "dead"
    /\ response.channels[Len(toCheck)].status = "live"

-----------------------------------------------------------------------------
(* One more claim about parsePlaylist, under SpecParse.                    *)

\* the attribute list of a metadata line: what stands between the marker and
\* the last comma (all of it when there is no comma)
AttributeList(line) ==
    LET extinf == Tail(line)
        commaIndex == LastIndexOf(extinf, ",")
    IN IF commaIndex > 0 THEN SubSeq(extinf, 1, commaIndex - 1) ELSE extinf

\* C18: the group of a parsed channel is given by the key="value" pairs that
\* stand before the last comma of its metadata line alone: group-title="X"
\* after the last comma, inside the name, does not change it.
C18_GroupFromAttributeList ==
    pc = "applied" =>
        LET ls == PlaylistLines(content)
            us == UrlPositions(ls, 1)
        IN \A k \in 1..Len(us) :
              FeederOf(ls, us[k]) # 0 =>
                  channels[k].group =
                      Substring0(
                          GroupTitleOr(
                              ParseAttrs(
                                  AttributeList(ls[FeederOf(ls, us[k])]))),
                          GROUP_LIMIT)

-----------------------------------------------------------------------------
(* One more claim about an analysis run, under Spec.                       *)

\* C19: in every successful analysis result, with checkChannels true or
\* false, liveChannels, deadChannels and uncheckedChannels of the summary are
\* the numbers of channels of the whole channel sequence with status live,
\* dead and unchecked, and checkedChannels is the number of channels that
\* were probed.
C19_SummaryMatchesChannels ==
    (response.status = 200 /\ ParsedCount <= MAX_CHANNELS_IN_RESPONSE) =>
        LET s == response.summary
            cs == response.channels
            with(st) == Cardinality({k \in 1..Len(cs) : cs[k].status = st})
        IN /\ Len(cs) = ParsedCount
           /\ s.liveChannels = with("live")
           /\ s.deadChannels = with("dead")
           /\ s.uncheckedChannels = with("unchecked")
           /\ s.checkedChannels = Len(issued)

=============================================================================
